---- MODULE Spec2Model ----
(***************************************************************************)
(* makevlc.py of pl_mpeg: the bit-tree VLC table PLM_VIDEO_DCT_COEFF, its  *)
(* compilation into 256-entry byte tables (lookup8, build_table), the fast *)
(* byte-table decoder (fast_lookup), the bit-by-bit reference decoder      *)
(* (slow_lookup) and the exhaustive comparison loop that ends the script.  *)
(*                                                                         *)
(* Python lists are 0-based and TLA+ sequences 1-based: element k of a     *)
(* Python list is element k+1 of the sequence that models it.              *)
(***************************************************************************)
EXTENDS Integers, Sequences, FiniteSets, TLC

VARIABLES pc, qtables, stack, code, sym0, sym1

vars == <<pc, qtables, stack, code, sym0, sym1>>

(***************************************************************************)
(* The bit-tree table, one <<continuation, payload>> pair per entry; the   *)
(* comment gives the node whose "0" and "1" entries the line holds.        *)
(***************************************************************************)
PLM_VIDEO_DCT_COEFF == <<
    <<2, 0>>, <<0, 1>>,                 \* 0
    <<4, 0>>, <<6, 0>>,                 \* 1
    <<8, 0>>, <<10, 0>>,                \* 2
    <<12, 0>>, <<0, 257>>,              \* 3
    <<14, 0>>, <<16, 0>>,               \* 4
    <<18, 0>>, <<20, 0>>,               \* 5
    <<0, 2>>, <<0, 513>>,               \* 6
    <<22, 0>>, <<24, 0>>,               \* 7
    <<26, 0>>, <<28, 0>>,               \* 8
    <<30, 0>>, <<0, 3>>,                \* 9
    <<0, 1025>>, <<0, 769>>,            \* 10
    <<32, 0>>, <<0, 65535>>,            \* 11
    <<34, 0>>, <<36, 0>>,               \* 12
    <<0, 1793>>, <<0, 1537>>,           \* 13
    <<0, 258>>, <<0, 1281>>,            \* 14
    <<38, 0>>, <<40, 0>>,               \* 15
    <<42, 0>>, <<44, 0>>,               \* 16
    <<0, 514>>, <<0, 2305>>,            \* 17
    <<0, 4>>, <<0, 2049>>,              \* 18
    <<46, 0>>, <<48, 0>>,               \* 19
    <<50, 0>>, <<52, 0>>,               \* 20
    <<54, 0>>, <<56, 0>>,               \* 21
    <<58, 0>>, <<60, 0>>,               \* 22
    <<0, 3329>>, <<0, 6>>,              \* 23
    <<0, 3073>>, <<0, 2817>>,           \* 24
    <<0, 770>>, <<0, 259>>,             \* 25
    <<0, 5>>, <<0, 2561>>,              \* 26
    <<62, 0>>, <<64, 0>>,               \* 27
    <<66, 0>>, <<68, 0>>,               \* 28
    <<70, 0>>, <<72, 0>>,               \* 29
    <<74, 0>>, <<76, 0>>,               \* 30
    <<78, 0>>, <<80, 0>>,               \* 31
    <<82, 0>>, <<84, 0>>,               \* 32
    <<86, 0>>, <<88, 0>>,               \* 33
    <<90, 0>>, <<92, 0>>,               \* 34
    <<0, 4097>>, <<0, 1282>>,           \* 35
    <<0, 7>>, <<0, 515>>,               \* 36
    <<0, 260>>, <<0, 3841>>,            \* 37
    <<0, 3585>>, <<0, 1026>>,           \* 38
    <<94, 0>>, <<96, 0>>,               \* 39
    <<98, 0>>, <<100, 0>>,              \* 40
    <<102, 0>>, <<104, 0>>,             \* 41
    <<106, 0>>, <<108, 0>>,             \* 42
    <<110, 0>>, <<112, 0>>,             \* 43
    <<114, 0>>, <<116, 0>>,             \* 44
    <<118, 0>>, <<120, 0>>,             \* 45
    <<122, 0>>, <<124, 0>>,             \* 46
    <<-1, 0>>, <<126, 0>>,              \* 47
    <<128, 0>>, <<130, 0>>,             \* 48
    <<132, 0>>, <<134, 0>>,             \* 49
    <<136, 0>>, <<138, 0>>,             \* 50
    <<140, 0>>, <<142, 0>>,             \* 51
    <<144, 0>>, <<146, 0>>,             \* 52
    <<148, 0>>, <<150, 0>>,             \* 53
    <<152, 0>>, <<154, 0>>,             \* 54
    <<0, 11>>, <<0, 2050>>,             \* 55
    <<0, 1027>>, <<0, 10>>,             \* 56
    <<0, 516>>, <<0, 1794>>,            \* 57
    <<0, 5377>>, <<0, 5121>>,           \* 58
    <<0, 9>>, <<0, 4865>>,              \* 59
    <<0, 4609>>, <<0, 261>>,            \* 60
    <<0, 771>>, <<0, 8>>,               \* 61
    <<0, 1538>>, <<0, 4353>>,           \* 62
    <<156, 0>>, <<158, 0>>,             \* 63
    <<160, 0>>, <<162, 0>>,             \* 64
    <<164, 0>>, <<166, 0>>,             \* 65
    <<168, 0>>, <<170, 0>>,             \* 66
    <<172, 0>>, <<174, 0>>,             \* 67
    <<176, 0>>, <<178, 0>>,             \* 68
    <<180, 0>>, <<182, 0>>,             \* 69
    <<0, 2562>>, <<0, 2306>>,           \* 70
    <<0, 1283>>, <<0, 772>>,            \* 71
    <<0, 517>>, <<0, 263>>,             \* 72
    <<0, 262>>, <<0, 15>>,              \* 73
    <<0, 14>>, <<0, 13>>,               \* 74
    <<0, 12>>, <<0, 6657>>,             \* 75
    <<0, 6401>>, <<0, 6145>>,           \* 76
    <<0, 5889>>, <<0, 5633>>,           \* 77
    <<184, 0>>, <<186, 0>>,             \* 78
    <<188, 0>>, <<190, 0>>,             \* 79
    <<192, 0>>, <<194, 0>>,             \* 80
    <<196, 0>>, <<198, 0>>,             \* 81
    <<200, 0>>, <<202, 0>>,             \* 82
    <<204, 0>>, <<206, 0>>,             \* 83
    <<0, 31>>, <<0, 30>>,               \* 84
    <<0, 29>>, <<0, 28>>,               \* 85
    <<0, 27>>, <<0, 26>>,               \* 86
    <<0, 25>>, <<0, 24>>,               \* 87
    <<0, 23>>, <<0, 22>>,               \* 88
    <<0, 21>>, <<0, 20>>,               \* 89
    <<0, 19>>, <<0, 18>>,               \* 90
    <<0, 17>>, <<0, 16>>,               \* 91
    <<208, 0>>, <<210, 0>>,             \* 92
    <<212, 0>>, <<214, 0>>,             \* 93
    <<216, 0>>, <<218, 0>>,             \* 94
    <<220, 0>>, <<222, 0>>,             \* 95
    <<0, 40>>, <<0, 39>>,               \* 96
    <<0, 38>>, <<0, 37>>,               \* 97
    <<0, 36>>, <<0, 35>>,               \* 98
    <<0, 34>>, <<0, 33>>,               \* 99
    <<0, 32>>, <<0, 270>>,              \* 100
    <<0, 269>>, <<0, 268>>,             \* 101
    <<0, 267>>, <<0, 266>>,             \* 102
    <<0, 265>>, <<0, 264>>,             \* 103
    <<0, 274>>, <<0, 273>>,             \* 104
    <<0, 272>>, <<0, 271>>,             \* 105
    <<0, 1539>>, <<0, 4098>>,           \* 106
    <<0, 3842>>, <<0, 3586>>,           \* 107
    <<0, 3330>>, <<0, 3074>>,           \* 108
    <<0, 2818>>, <<0, 7937>>,           \* 109
    <<0, 7681>>, <<0, 7425>>,           \* 110
    <<0, 7169>>, <<0, 6913>>            \* 111
>>

(***************************************************************************)
(* Python values.  None, an int, a (bitlen, symbol) tuple, a name that is  *)
(* not bound yet, and the exceptions a statement can raise.                *)
(***************************************************************************)
NoneV == [kind |-> "None"]

IntV(v) == [kind |-> "int", val |-> v]

Pair(n, s) == [kind |-> "tuple", bits |-> n, sym |-> s]

Unbound == [kind |-> "unbound"]

AssertionError == [kind |-> "AssertionError"]

IndexError == [kind |-> "IndexError"]

TypeError == [kind |-> "TypeError"]

Raised(v) == v.kind \in {"AssertionError", "IndexError", "TypeError"}

(***************************************************************************)
(* Python's integer operators.  >> is floor division by a power of two and *)
(* << multiplication by one (Python integers have no width); & and | are   *)
(* taken bit by bit.  BitAnd's mask b and BitOr's operands are never       *)
(* negative where the script uses them.                                    *)
(***************************************************************************)
RECURSIVE Pow2(_)
Pow2(n) == IF n = 0 THEN 1 ELSE 2 * Pow2(n - 1)

Shr(a, n) == a \div Pow2(n)

Shl(a, n) == a * Pow2(n)

RECURSIVE BitAnd(_, _)
BitAnd(a, b) ==
    IF b = 0 THEN 0
    ELSE (a % 2) * (b % 2) + 2 * BitAnd(a \div 2, b \div 2)

RECURSIVE BitOr(_, _)
BitOr(a, b) ==
    IF a = 0 THEN b
    ELSE IF b = 0 THEN a
    ELSE (IF a % 2 = 1 \/ b % 2 = 1 THEN 1 ELSE 0) + 2 * BitOr(a \div 2, b \div 2)

(***************************************************************************)
(* table[idx]: Python indexes a list from its end when idx is negative and *)
(* raises IndexError outside -len .. len-1.                                *)
(***************************************************************************)
InRange(table, idx) == -Len(table) <= idx /\ idx < Len(table)

Item(table, idx) == IF idx >= 0 THEN table[idx + 1] ELSE table[Len(table) + idx + 1]

(***************************************************************************)
(* lookup8: the walk over at most 8 bits of a byte, from node idx.  The    *)
(* walk ends on the invalid marker, on a terminal entry (after i+1 bits,   *)
(* with payload sym) or, the 8 bits used up, on the node idx to go on from.*)
(***************************************************************************)
RECURSIVE lookup8_walk(_, _, _, _)
lookup8_walk(table, c, idx, i) ==
    IF i = 8 THEN [kind |-> "continue", idx |-> idx]
    ELSE LET idx1 == idx + (Shr(c, 7) % 2)
             c1   == Shl(c, 1)
         IN  IF ~InRange(table, idx1) THEN IndexError
             ELSE IF Item(table, idx1)[1] = -1 THEN NoneV
             ELSE IF Item(table, idx1)[1] = 0
                  THEN [kind |-> "terminal", i |-> i, sym |-> Item(table, idx1)[2]]
             ELSE lookup8_walk(table, c1, Item(table, idx1)[1], i + 1)

\* Fault: the top 3 bits hold the number of bits consumed, not that number
\* minus one.
Pack_BitCount(sym, i) == BitOr(sym, Shl(i + 1, 13))

\* The entry value of a terminal: the symbol in the low 13 bits, the number
\* of bits consumed, minus one, in the top 3.
Pack(sym, i) == BitOr(sym, Shl(i, 13))

\* Fault: the node to go on from is returned as it is, not negated.
lookup8_PosIdx(table, c, idx) ==
    LET w == lookup8_walk(table, c, idx, 0)
    IN  CASE w.kind = "terminal" ->
                 IF BitAnd(w.sym, 57344) = 0 \/ w.sym = 65535
                 THEN IntV(Pack(w.sym, w.i))
                 ELSE AssertionError
          [] w.kind = "continue" -> IntV(w.idx)
          [] OTHER -> w

lookup8(table, c, idx) ==
    LET w == lookup8_walk(table, c, idx, 0)
    IN  CASE w.kind = "terminal" ->
                 IF BitAnd(w.sym, 57344) = 0 \/ w.sym = 65535
                 THEN IntV(Pack(w.sym, w.i))
                 ELSE AssertionError
          [] w.kind = "continue" -> IntV(-w.idx)
          [] OTHER -> w

(***************************************************************************)
(* build_table, one frame of the stack per call in progress: tidx the      *)
(* index the call returns, qt the table it fills (the list object that was *)
(* last in qtables when the call began, named by its position), idx the    *)
(* node it starts from, code the byte its loop is at (256: loop over).     *)
(***************************************************************************)
NewTable == [b \in 0..255 |-> NoneV]

\* Fault: the index is taken after the table has been appended.
Enter_TidxAfterAppend(idx) ==
    /\ qtables' = Append(qtables, NewTable)
    /\ stack' = Append(stack, [tidx |-> Len(qtables'),
                               qt   |-> Len(qtables') - 1,
                               idx  |-> idx,
                               code |-> 0])

Enter(idx) ==
    /\ qtables' = Append(qtables, NewTable)
    /\ stack' = Append(stack, [tidx |-> Len(qtables),
                               qt   |-> Len(qtables') - 1,
                               idx  |-> idx,
                               code |-> 0])

Top == stack[Len(stack)]

\* line 166: the loop of the innermost call has a byte to look up
AtByte == pc = "build" /\ stack # <<>> /\ Top.code < 256

\* line 174: the loop of the innermost call is over
AtReturn == pc = "build" /\ stack # <<>> /\ Top.code = 256

\* Fault: the entry is written into qtables[-1], not into the call's table.
Store_Last(qts, st, q, c, v) ==
    /\ qtables' = [qts EXCEPT ![Len(qts)][c] = v]
    /\ stack' = [st EXCEPT ![Len(st)].code = c + 1]

Store(qts, st, q, c, v) ==
    /\ qtables' = [qts EXCEPT ![q + 1][c] = v]
    /\ stack' = [st EXCEPT ![Len(st)].code = c + 1]

\* line 177: the call on the root of the tree
BuildCall ==
    /\ pc = "start"
    /\ pc' = "build"
    /\ Enter(0)
    /\ UNCHANGED <<code, sym0, sym1>>

\* lines 166-171: a byte whose walk ends within the 8 bits (or raises)
BuildStore ==
    /\ AtByte
    /\ LET value == lookup8(PLM_VIDEO_DCT_COEFF, Top.code, Top.idx)
       IN  /\ ~(value.kind = "int" /\ value.val <= 0)
           /\ IF Raised(value)
              THEN pc' = value.kind /\ UNCHANGED <<qtables, stack>>
              ELSE /\ pc' = pc
                   /\ Store(qtables, stack, Top.qt, Top.code,
                            IF value = NoneV THEN IntV(0) ELSE value)
    /\ UNCHANGED <<code, sym0, sym1>>

\* Fault: the recursive call starts from the caller's node again.
BuildRecurse_SameNode ==
    /\ AtByte
    /\ LET value == lookup8(PLM_VIDEO_DCT_COEFF, Top.code, Top.idx)
       IN  /\ value.kind = "int" /\ value.val <= 0
           /\ Enter(Top.idx)
    /\ UNCHANGED <<pc, code, sym0, sym1>>

\* lines 172-173, the call: a byte whose walk goes on past the 8 bits
BuildRecurse ==
    /\ AtByte
    /\ LET value == lookup8(PLM_VIDEO_DCT_COEFF, Top.code, Top.idx)
       IN  /\ value.kind = "int" /\ value.val <= 0
           /\ Enter(-value.val)
    /\ UNCHANGED <<pc, code, sym0, sym1>>

\* line 174, and line 173's store of the returned index in the caller
BuildReturn ==
    /\ AtReturn
    /\ IF Len(stack) = 1
       THEN /\ pc' = "loop"
            /\ stack' = <<>>
            /\ UNCHANGED qtables
       ELSE LET rest   == SubSeq(stack, 1, Len(stack) - 1)
                caller == rest[Len(rest)]
            IN  /\ pc' = pc
                /\ Store(qtables, rest, caller.qt, caller.code, IntV(-Top.tidx))
    /\ UNCHANGED <<code, sym0, sym1>>

(***************************************************************************)
(* fast_lookup.  ret is what the call returns (or raises); reads lists the *)
(* <<table, entry>> places of qtables the call has read.                   *)
(***************************************************************************)
\* Fault: the symbol is masked to 12 bits.
Unpack_Mask12(n, value) == Pair(n + 1 + Shr(value, 13), BitAnd(value, 4095))

Unpack(n, value) == Pair(n + 1 + Shr(value, 13), BitAnd(value, 8191))

\* Fault: no special case for the raw entry 0xFFFF.
fast_lookup_NoSentinel(qts, c) ==
    LET code0 == Shr(c, 8)
        code1 == BitAnd(c, 255)
    IN  IF c >= 65536 THEN [ret |-> AssertionError, reads |-> <<>>]
        ELSE IF code0 >= 128 THEN [ret |-> Pair(1, 1), reads |-> <<>>]
        ELSE LET t == IF code0 < 4 THEN code0 + 1 ELSE 0
                 b == IF code0 < 4 THEN code1 ELSE code0
                 n == IF code0 < 4 THEN 8 ELSE 0
             IN  IF t >= Len(qts) THEN [ret |-> IndexError, reads |-> <<>>]
                 ELSE LET value == Item(qts, t)[b]
                      IN  [reads |-> << <<t, b>> >>,
                           ret |-> IF value = NoneV THEN TypeError
                                   ELSE IF value.val = 0 THEN NoneV
                                   ELSE Unpack(n, value.val)]

\* Fault: the first shortcut tests code0 > 128.
fast_lookup_Gt128(qts, c) ==
    LET code0 == Shr(c, 8)
        code1 == BitAnd(c, 255)
    IN  IF c >= 65536 THEN [ret |-> AssertionError, reads |-> <<>>]
        ELSE IF code0 > 128 THEN [ret |-> Pair(1, 1), reads |-> <<>>]
        ELSE LET t == IF code0 < 4 THEN code0 + 1 ELSE 0
                 b == IF code0 < 4 THEN code1 ELSE code0
                 n == IF code0 < 4 THEN 8 ELSE 0
             IN  IF t >= Len(qts) THEN [ret |-> IndexError, reads |-> <<>>]
                 ELSE LET value == Item(qts, t)[b]
                      IN  [reads |-> << <<t, b>> >>,
                           ret |-> IF value = NoneV THEN TypeError
                                   ELSE IF value.val = 0 THEN NoneV
                                   ELSE IF value.val = 65535 THEN Pair(6, 65535)
                                   ELSE Unpack(n, value.val)]

fast_lookup(qts, c) ==
    LET code0 == Shr(c, 8)
        code1 == BitAnd(c, 255)
    IN  IF c >= 65536 THEN [ret |-> AssertionError, reads |-> <<>>]
        ELSE IF code0 >= 128 THEN [ret |-> Pair(1, 1), reads |-> <<>>]
        ELSE LET t == IF code0 < 4 THEN code0 + 1 ELSE 0
                 b == IF code0 < 4 THEN code1 ELSE code0
                 n == IF code0 < 4 THEN 8 ELSE 0
             IN  IF t >= Len(qts) THEN [ret |-> IndexError, reads |-> <<>>]
                 ELSE LET value == Item(qts, t)[b]
                      IN  [reads |-> << <<t, b>> >>,
                           ret |-> IF value = NoneV THEN TypeError
                                   ELSE IF value.val = 0 THEN NoneV
                                   ELSE IF value.val = 65535 THEN Pair(6, 65535)
                                   ELSE Unpack(n, value.val)]

(***************************************************************************)
(* slow_lookup, the bit-by-bit walk of plm_buffer_read_vlc_bits.           *)
(***************************************************************************)
\* Fault: the loop gives up after 15 bits.
RECURSIVE slow_walk_15(_, _, _, _)
slow_walk_15(table, c, idx, i) ==
    IF i = 15 THEN AssertionError
    ELSE LET idx1 == idx + (Shr(c, 15) % 2)
             c1   == Shl(c, 1)
         IN  IF ~InRange(table, idx1) THEN IndexError
             ELSE IF Item(table, idx1)[1] = -1 THEN NoneV
             ELSE IF Item(table, idx1)[1] = 0 THEN Pair(i + 1, Item(table, idx1)[2])
             ELSE slow_walk_15(table, c1, Item(table, idx1)[1], i + 1)

\* Fault: the number of bits is counted from 0.
RECURSIVE slow_walk_ZeroBased(_, _, _, _)
slow_walk_ZeroBased(table, c, idx, i) ==
    IF i = 16 THEN AssertionError
    ELSE LET idx1 == idx + (Shr(c, 15) % 2)
             c1   == Shl(c, 1)
         IN  IF ~InRange(table, idx1) THEN IndexError
             ELSE IF Item(table, idx1)[1] = -1 THEN NoneV
             ELSE IF Item(table, idx1)[1] = 0 THEN Pair(i, Item(table, idx1)[2])
             ELSE slow_walk_ZeroBased(table, c1, Item(table, idx1)[1], i + 1)

RECURSIVE slow_walk(_, _, _, _)
slow_walk(table, c, idx, i) ==
    IF i = 16 THEN AssertionError
    ELSE LET idx1 == idx + (Shr(c, 15) % 2)
             c1   == Shl(c, 1)
         IN  IF ~InRange(table, idx1) THEN IndexError
             ELSE IF Item(table, idx1)[1] = -1 THEN NoneV
             ELSE IF Item(table, idx1)[1] = 0 THEN Pair(i + 1, Item(table, idx1)[2])
             ELSE slow_walk(table, c1, Item(table, idx1)[1], i + 1)

slow_lookup(table, c) ==
    IF c >= 65536 THEN AssertionError ELSE slow_walk(table, c, 0, 0)

(***************************************************************************)
(* lines 235-237: the body of the comparison loop, for the code c.         *)
(***************************************************************************)
Compare(c) ==
    /\ code' = c
    /\ sym0' = fast_lookup(qtables, c).ret
    /\ sym1' = slow_lookup(PLM_VIDEO_DCT_COEFF, c)
    /\ pc' = IF Raised(sym0') THEN sym0'.kind
             ELSE IF Raised(sym1') THEN sym1'.kind
             ELSE IF sym0' = sym1' THEN "check"
             ELSE "AssertionError"
    /\ UNCHANGED <<qtables, stack>>

\* line 234: the loop takes the codes of range(65536) in order
CheckStep ==
    /\ pc = "loop" \/ (pc = "check" /\ code < 65535)
    /\ Compare(IF pc = "loop" THEN 0 ELSE code + 1)

\* The body of the loop on any one code of range(65536), whatever the turn
\* of the loop it is: a turn depends on no turn before it.
AnyCode ==
    /\ pc = "loop"
    /\ \E c \in 0..65535 : Compare(c)

\* line 239
Finish ==
    /\ pc = "check"
    /\ code = 65535
    /\ pc' = "done"
    /\ UNCHANGED <<qtables, stack, code, sym0, sym1>>

Init ==
    /\ pc = "start"
    /\ qtables = <<>>
    /\ stack = <<>>
    /\ code = Unbound
    /\ sym0 = Unbound
    /\ sym1 = Unbound

Build == BuildCall \/ BuildStore \/ BuildRecurse \/ BuildReturn

Next == Build \/ CheckStep \/ Finish

Spec == Init /\ [][Next]_vars

\* The compilation alone, up to the return of the root call.
SpecBuild == Init /\ [][Build]_vars

\* The compilation, then the two decoders on any one code.
Lookup == Build \/ AnyCode

SpecAnyCode == Init /\ [][Lookup]_vars

(***************************************************************************)
(* Vocabulary of the properties below.                                     *)
(***************************************************************************)
\* The loop of lines 234-237 has compared a code: code, sym0, sym1 are bound.
Checked == sym0 # Unbound

\* The root call has returned and nothing has run since.
Built == pc = "loop"

Bytes == 0..255

\* Table k of qtables is filled, and filled as build_table fills the table
\* of node s: each entry is what lookup8 gives for its byte, a walk that goes
\* on past the byte leading to a later table that is the table of the node
\* the walk stopped on.
RECURSIVE TableOf(_, _)
EntryOf(k, s, b) ==
    LET v == lookup8(PLM_VIDEO_DCT_COEFF, b, s)
        e == Item(qtables, k)[b]
    IN  /\ e.kind = "int"
        /\ CASE v = NoneV -> e.val = 0
             [] v.kind = "int" /\ v.val > 0 -> e = v
             [] v.kind = "int" /\ v.val <= 0 ->
                    /\ e.val < 0
                    /\ k < -e.val /\ -e.val < Len(qtables)
                    /\ TableOf(-e.val, -v.val)
             [] OTHER -> FALSE

TableOf(k, s) == \A b \in Bytes : EntryOf(k, s, b)

(***************************************************************************)
(* C1.  Once build_table(PLM_VIDEO_DCT_COEFF) has returned, fast_lookup    *)
(* and slow_lookup agree on every code 0..65535 the loop compares: both    *)
(* None, or the same (bitsConsumed, symbol) pair; the loop raises nothing. *)
(***************************************************************************)
C1_Equivalence ==
    /\ pc \notin {"AssertionError", "IndexError", "TypeError"}
    /\ Checked =>
         /\ sym0 = sym1
         /\ sym0 = NoneV \/ sym0.kind = "tuple"

C1_Witness ==
    /\ pc = "check" /\ code = 255
    /\ sym0 = Pair(13, 5633) /\ sym1 = Pair(13, 5633)

(***************************************************************************)
(* C2, as stated: a code whose slow decode gives symbol 0xFFFF, and a read *)
(* of the raw entry 0xFFFF, make fast_lookup return (6, 0).                *)
(***************************************************************************)
RawRead == fast_lookup(qtables, code).reads

C2_Original ==
    Checked =>
      /\ (sym1.kind = "tuple" /\ sym1.sym = 65535) => sym0 = Pair(6, 0)
      /\ \A r \in 1..Len(RawRead) :
            Item(qtables, RawRead[r][1])[RawRead[r][2]] = IntV(65535)
              => sym0 = Pair(6, 0)

(***************************************************************************)
(* C2, amended: a code whose slow decode gives symbol 0xFFFF, and a read   *)
(* of the raw entry 0xFFFF, make fast_lookup return (6, 0xFFFF): 6 bits    *)
(* and the sentinel itself as the symbol.                                  *)
(***************************************************************************)
C2_Sentinel ==
    Checked =>
      /\ (sym1.kind = "tuple" /\ sym1.sym = 65535) => sym0 = Pair(6, 65535)
      /\ \A r \in 1..Len(RawRead) :
            Item(qtables, RawRead[r][1])[RawRead[r][2]] = IntV(65535)
              => sym0 = Pair(6, 65535)

C2_Witness ==
    /\ Checked /\ code = 1024
    /\ sym1 = Pair(6, 65535)
    /\ RawRead = << <<0, 4>> >>
    /\ Item(qtables, 0)[4] = IntV(65535)
    /\ sym0 = Pair(6, 65535)

(***************************************************************************)
(* C3.  For every code in 0x8000..0xFFFF fast_lookup returns (1, 1), has   *)
(* read no entry of qtables, and the bit-tree walk gives (1, 1) too.       *)
(***************************************************************************)
C3_Shortcut1 ==
    (Checked /\ code >= 32768) =>
      /\ sym0 = Pair(1, 1)
      /\ RawRead = <<>>
      /\ sym1 = Pair(1, 1)

C3_Witness ==
    /\ Checked /\ code = 32768
    /\ sym0 = Pair(1, 1) /\ sym1 = Pair(1, 1)
    /\ RawRead = <<>>

(***************************************************************************)
(* C4.  When build_table has returned, the bytes of qtables[0] that lead   *)
(* to a second table are exactly 0..3: qtables[0][b] is negative iff       *)
(* b < 4, and is then -(b+1); qtables holds 5 tables, and qtables[hi+1] is *)
(* the table of the node the walk of byte hi stops on.                     *)
(***************************************************************************)
C4_SecondTables ==
    Built =>
      /\ Len(qtables) = 5
      /\ \A b \in Bytes :
           /\ Item(qtables, 0)[b].val < 0 <=> b < 4
           /\ b < 4 => Item(qtables, 0)[b] = IntV(-(b + 1))
      /\ \A hi \in 0..3 :
           LET v == lookup8(PLM_VIDEO_DCT_COEFF, hi, 0)
           IN  /\ v.kind = "int" /\ v.val < 0
               /\ TableOf(hi + 1, -v.val)

C4_Witness ==
    /\ Built
    /\ Len(qtables) = 5
    /\ Item(qtables, 0)[3] = IntV(-4)
    /\ Item(qtables, 0)[4].val > 0

(***************************************************************************)
(* C5.  build_table(PLM_VIDEO_DCT_COEFF) returns: until it has, the run is *)
(* at a statement of it (the call, a byte of a loop, a return), and every  *)
(* step adds one to the tables appended plus the entries set, which never  *)
(* exceeds 5 tables of 256 entries.  At no moment are more than 2 calls in *)
(* progress; no table other than qtables[0] holds a negative entry; and    *)
(* qtables ends with 5 tables.                                             *)
(***************************************************************************)
Progress ==
    Len(qtables)
    + Cardinality({kb \in (1..Len(qtables)) \X Bytes : qtables[kb[1]][kb[2]] # NoneV})
    + (IF Built THEN 1 ELSE 0)

C5_Depth ==
    /\ Len(stack) <= 2
    /\ Len(qtables) <= 5
    /\ Progress <= 5 + 5 * 256 + 1
    /\ \A k \in 1..(Len(qtables) - 1) : \A b \in Bytes :
          Item(qtables, k)[b] # NoneV => Item(qtables, k)[b].val >= 0
    /\ Built \/ pc = "start" \/ AtByte \/ AtReturn
    /\ Built => Len(qtables) = 5

C5_Terminates == []C5_Depth /\ [][Progress' = Progress + 1]_vars

C5_Witness ==
    /\ pc = "build"
    /\ Len(stack) = 2 /\ Top.code = 256
    /\ Len(qtables) = 5

(***************************************************************************)
(* C6.  Every terminal payload p other than 0xFFFF that lookup8 reaches    *)
(* during the compilation, after c = i+1 bits, has 1 <= c <= 8 and         *)
(* p & 0xE000 = 0 (the assertion of lookup8 holds), and unpacking the      *)
(* packed p | ((c-1) << 13) as (1 + (raw >> 13), raw & 0x1FFF) gives back  *)
(* (c, p).                                                                 *)
(***************************************************************************)
Walk == lookup8_walk(PLM_VIDEO_DCT_COEFF, Top.code, Top.idx, 0)

C6_RoundTrip ==
    /\ pc # "AssertionError"
    /\ AtByte =>
         /\ lookup8(PLM_VIDEO_DCT_COEFF, Top.code, Top.idx) # AssertionError
         /\ (Walk.kind = "terminal" /\ Walk.sym # 65535) =>
              /\ Walk.i + 1 \in 1..8
              /\ BitAnd(Walk.sym, 57344) = 0
              /\ Unpack(0, Pack(Walk.sym, Walk.i)) = Pair(Walk.i + 1, Walk.sym)

C6_Witness ==
    /\ AtByte /\ Len(stack) = 2
    /\ Walk.kind = "terminal" /\ Walk.i = 7 /\ Walk.sym = 274
    /\ Pack(Walk.sym, Walk.i) = 57618
    /\ Unpack(0, 57618) = Pair(8, 274)

(***************************************************************************)
(* C7.  For every code 0..65535 slow_lookup on PLM_VIDEO_DCT_COEFF ends    *)
(* within its 16 turns, with None or with a pair whose bitsConsumed is in  *)
(* 1..16: it reaches neither the "assert 0" after the loop nor an index    *)
(* outside the table (every continuation of the table is -1 or the index   *)
(* of a pair of entries of the table).                                     *)
(***************************************************************************)
ContinuationsInTable ==
    \A k \in 1..Len(PLM_VIDEO_DCT_COEFF) :
        \/ PLM_VIDEO_DCT_COEFF[k][1] = -1
        \/ /\ 0 <= PLM_VIDEO_DCT_COEFF[k][1]
           /\ PLM_VIDEO_DCT_COEFF[k][1] + 1 < Len(PLM_VIDEO_DCT_COEFF)

C7_SlowTotal ==
    /\ ContinuationsInTable
    /\ Checked =>
         \/ sym1 = NoneV
         \/ sym1.kind = "tuple" /\ sym1.bits \in 1..16

C7_Witness ==
    /\ Checked /\ code = 16
    /\ sym1.kind = "tuple" /\ sym1.bits = 16
    /\ slow_lookup(PLM_VIDEO_DCT_COEFF, 15) = NoneV

(***************************************************************************)
(* C8.  Through the run of build_table qtables is append-only and a call   *)
(* reserves its index before it fills its table: a call appends an unset   *)
(* table at tidx = len(qtables) and returns that tidx; qtables[0] is the   *)
(* table of the root; an entry is written once, by the call whose loop is  *)
(* at that byte, into that call's qtables[tidx], whatever tables have been *)
(* appended since; a negative entry -k of qtables[tidx] has                *)
(* tidx < k < len(qtables), qtables[k] being the table of the node the     *)
(* walk of that byte stops on; and no entry is unset when the root call    *)
(* returns.                                                                *)
(***************************************************************************)
\* The table of frame j is filled, rightly, below the byte its loop is at,
\* and unset from there on; the call above it was made for that byte.
FrameOK(j) ==
    LET f == stack[j]
    IN  /\ f.tidx < Len(qtables) /\ f.qt = f.tidx
        /\ \A b \in Bytes :
              IF b < f.code THEN EntryOf(f.tidx, f.idx, b)
              ELSE Item(qtables, f.tidx)[b] = NoneV
        /\ j < Len(stack) =>
              /\ f.code < 256
              /\ f.tidx < stack[j + 1].tidx
              /\ lookup8(PLM_VIDEO_DCT_COEFF, f.code, f.idx) = IntV(-stack[j + 1].idx)

C8_State ==
    /\ pc = "build" =>
         /\ Len(stack) > 0
         /\ stack[1].tidx = 0 /\ stack[1].idx = 0
         /\ \A j \in 1..Len(stack) : FrameOK(j)
    /\ Built => stack = <<>> /\ TableOf(0, 0)

C8_Step ==
    /\ Len(qtables') >= Len(qtables)
    /\ \A k \in 1..Len(qtables) : \A b \in Bytes :
          /\ qtables[k][b] # NoneV => qtables'[k][b] = qtables[k][b]
          /\ qtables'[k][b] # qtables[k][b] =>
                /\ stack' # <<>>
                /\ k = stack'[Len(stack')].tidx + 1
                /\ b = stack'[Len(stack')].code - 1
    /\ Len(qtables') > Len(qtables) =>
          /\ Len(qtables') = Len(qtables) + 1
          /\ qtables'[Len(qtables')] = NewTable
          /\ Len(stack') = Len(stack) + 1
          /\ stack'[Len(stack')].tidx = Len(qtables)
    /\ (Len(stack') < Len(stack) /\ stack' # <<>>) =>
          LET f == stack'[Len(stack')]
          IN  Item(qtables', f.tidx)[f.code - 1] = IntV(-Top.tidx)

C8_AppendOnly == []C8_State /\ [][C8_Step]_vars

C8_Witness ==
    /\ pc = "build" /\ Len(stack) = 1 /\ Len(qtables) = 3
    /\ Top.code = 2
    /\ Item(qtables, 0)[1] = IntV(-2)
    /\ Item(qtables, 2)[255] # NoneV

(***************************************************************************)
(* C9.  Exactly one terminal entry of PLM_VIDEO_DCT_COEFF has the payload  *)
(* 0xFFFF, and the walk from the root reaches it after exactly 6 bits, on  *)
(* the prefix 000001; so, build_table having returned, every entry of      *)
(* qtables equal to 0xFFFF is in qtables[0] at a byte 4..7.                *)
(***************************************************************************)
SentinelEntries ==
    {k \in 1..Len(PLM_VIDEO_DCT_COEFF) :
        PLM_VIDEO_DCT_COEFF[k][1] = 0 /\ PLM_VIDEO_DCT_COEFF[k][2] = 65535}

C9_SentinelPlace ==
    /\ Cardinality(SentinelEntries) = 1
    /\ (Checked /\ sym1.kind = "tuple" /\ sym1.sym = 65535) =>
          sym1.bits = 6 /\ Shr(code, 10) = 1
    /\ Built =>
          \A k \in 0..(Len(qtables) - 1) : \A b \in Bytes :
              Item(qtables, k)[b] = IntV(65535) => k = 0 /\ b \in 4..7
    /\ Checked =>
          \A r \in 1..Len(RawRead) :
              Item(qtables, RawRead[r][1])[RawRead[r][2]] = IntV(65535)
                => RawRead[r][1] = 0 /\ RawRead[r][2] \in 4..7

C9_Witness ==
    /\ Checked /\ code = 2047
    /\ sym1 = Pair(6, 65535)
    /\ \A b \in 4..7 : Item(qtables, 0)[b] = IntV(65535)

(***************************************************************************)
(* C10.  The three kinds of result of lookup8 are apart, for every start   *)
(* node and byte of the compilation: a terminal gives a value > 0, which   *)
(* is 0xFFFF only for the payload 0xFFFF, and a walk that goes on gives a  *)
(* value < 0.  So build_table never recurses for a terminal (no call       *)
(* starts from node 0 but the root's), no entry stored for a terminal is   *)
(* the invalid marker 0, and no packed entry is 0xFFFF.                    *)
(***************************************************************************)
C10_Apart ==
    /\ \A j \in 2..Len(stack) : stack[j].idx > 0
    /\ AtByte =>
         LET v == lookup8(PLM_VIDEO_DCT_COEFF, Top.code, Top.idx)
         IN  /\ Walk.kind = "terminal" =>
                  /\ v.kind = "int" /\ v.val > 0
                  /\ v.val = 65535 => Walk.sym = 65535
             /\ Walk.kind = "continue" => v.kind = "int" /\ v.val < 0
             /\ Walk.kind \in {"terminal", "continue", "None"}
    /\ (pc = "build" /\ Top.code > 0) =>
         LET b == Top.code - 1
             w == lookup8_walk(PLM_VIDEO_DCT_COEFF, b, Top.idx, 0)
             e == Item(qtables, Top.qt)[b]
         IN  /\ w.kind = "terminal" => e.val > 0 /\ (e.val = 65535 => w.sym = 65535)
             /\ w.kind = "continue" => e.val < 0
             /\ w.kind = "None" => e.val = 0

C10_Witness ==
    /\ pc = "build" /\ Len(stack) = 2 /\ Top.code = 17
    /\ Item(qtables, Top.qt)[15] = IntV(0)
    /\ Item(qtables, Top.qt)[16].val > 0
    /\ Item(qtables, 0)[0].kind = "None"

====
